---- MODULE Spec2Model ----
(***************************************************************************)
(* Snapshot data model of the listening-history toolkit.                   *)
(*                                                                         *)
(* The Collector (spotify_data_analysis.py, fetch_listening_data) upserts  *)
(* the upstream top-track charts of three look-back windows into the live  *)
(* tables tracks and artists.  The Archiver (historical_data_collector.py, *)
(* main / store_historical_data) copies the live tables into the           *)
(* historical tables under the current calendar date.                      *)
(*                                                                         *)
(* Tables are sets of rows (records); the primary keys of the schema are   *)
(* enforced by the insert operators, not by the representation.  The       *)
(* payload columns album_name, release_date, duration_ms, explicit and     *)
(* spotify_url are copied through exactly like track_name and are not      *)
(* carried in the rows.                                                    *)
(***************************************************************************)
EXTENDS Integers, Sequences, FiniteSets, TLC

\* ------------------------------------------------------------------ bounds
\* Collector runs in a behaviour.
MaxRuns == 2
\* Items in one upstream response (the code asks for limit=50).
MaxItems == 2
\* Calendar days the model covers.
MaxDate == 2
\* Archiver runs in a behaviour.
MaxArchives == 3
\* Toy calendar: days per month, months per year.
DaysPerMonth == 2
MonthsPerYear == 2

\* ------------------------------------------------------- upstream catalogue
\* The look-back windows in the order fetch_listening_data iterates them.
time_periods == <<"short_term", "medium_term", "long_term">>
TimeRanges == {time_periods[i] : i \in DOMAIN time_periods}

TrackIds == {"t1", "t2"}
TrackName == [t \in TrackIds |-> IF t = "t1" THEN "song1" ELSE "song2"]
TrackArtist == [t \in TrackIds |-> "A"]
\* The popularity the upstream reports for a track at the time of run n: it
\* drifts from run to run (45, 50, ... and 60, 65, ...).
Popularity(t, n) == (IF t = "t1" THEN 45 ELSE 60) + 5 * (n - 1)

\* A well-formed item of a top-tracks response.
Item(t, n) ==
    [id |-> t, name |-> TrackName[t], artists |-> <<TrackArtist[t]>>,
     popularity |-> Popularity(t, n)]
\* An item whose artists list is empty: track['artists'][0] raises.
Malformed(t, n) == [Item(t, n) EXCEPT !.artists = <<>>]

\* Sequences of pairwise distinct track ids of length n.
RECURSIVE Rankings(_)
Rankings(n) ==
    IF n = 0 THEN {<<>>}
    ELSE {Append(s, t) : s \in Rankings(n - 1), t \in TrackIds} \
         {s \in {Append(s, t) : s \in Rankings(n - 1), t \in TrackIds} :
             \E i, j \in 1..n : i < j /\ s[i] = s[j]}

\* What current_user_top_tracks can do for one window in run d:
\* raise (raised), or return a ranking of at most MaxItems items, the last
\* of which may be malformed when it is not the first (a malformed first
\* item leaves the tables as a raised fetch does).
Responses(d) ==
    {[raised |-> TRUE, items |-> <<>>]} \cup
    UNION {{[raised |-> FALSE, items |-> [i \in 1..n |-> Item(s[i], d)]]
               : s \in Rankings(n)}
           \cup {[raised |-> FALSE, items |-> [i \in 1..n |->
                      IF i = n THEN Malformed(s[i], d) ELSE Item(s[i], d)]]
                   : s \in IF n < 2 THEN {} ELSE Rankings(n)}
           : n \in 0..MaxItems}

\* The charts of one run: a response per window.
Charts(n) == [TimeRanges -> Responses(n)]
\* Charts in which every window gets the same response.
UniformCharts(n) == {[w \in TimeRanges |-> r] : r \in Responses(n)}

\* What the user can type at the overwrite prompt: the line without its
\* newline, so possibly empty or with a trailing blank.
Answers == {"y", "Y", "n", "", "yes", "YES", "y "}
\* The step of store_historical_data at which an I/O error or an interrupt
\* strikes, if any.
Faults == {"none", "tracks", "artists", "log"}

\* -------------------------------------------------------------------- state
VARIABLES
    tracks,             \* live table tracks (committed contents)
    artists,            \* live table artists (committed contents)
    historical_tracks,  \* historical table (committed contents)
    historical_artists, \* historical table (committed contents)
    collection_log,     \* historical table (committed contents)
    today,              \* the calendar day, date.today()
    clock,              \* Collector runs so far; a run's collected_date
    archives,           \* Archiver runs so far; a run's timestamp
    last,               \* what the last run was given, found and returned
    written,            \* history: the latest write of each (track id, window)
    session,            \* spotify_psychology_insights: where main is, and
                        \* the derived columns of its shared tracks_df
    server,             \* serve_visualizations: the main thread, the timer
                        \* thread, the socket and the browser
    menu                \* spotify_data_analysis: where main is, and the
                        \* calls of conn.close()

\* The file server and the data-analysis menu before their programs start.
ServerOff ==
    [main |-> "off", timer |-> "none", bound |-> FALSE, html_files |-> 0,
     port_free |-> TRUE, requests |-> 0, browser |-> <<>>]
MenuOff ==
    [at |-> "off", closed |-> 0, choice |-> "", shown |-> 0,
     found |-> <<{}, {}>>]

live == <<tracks, artists>>
historical == <<historical_tracks, historical_artists, collection_log>>
vars == <<tracks, artists, historical_tracks, historical_artists,
          collection_log, today, clock, archives, last, written,
          session, server, menu>>

\* ------------------------------------------------------------ Snapshot Store
\* The primary keys of the five tables.
TrackKey(r) == <<r.track_id, r.time_range>>
ArtistKey(r) == <<r.artist_name, r.time_range>>
HistoricalTrackKey(r) == <<r.collection_date, r.track_id, r.time_range>>
HistoricalArtistKey(r) == <<r.collection_date, r.artist_name, r.time_range>>
LogKey(r) == <<r.collection_date>>

PrimaryKey(name, r) ==
    CASE name = "tracks" -> TrackKey(r)
      [] name = "artists" -> ArtistKey(r)
      [] name = "historical_tracks" -> HistoricalTrackKey(r)
      [] name = "historical_artists" -> HistoricalArtistKey(r)
      [] name = "collection_log" -> LogKey(r)

\* A plain INSERT OR IGNORE: the row already stored wins.
InsertOrIgnore(name, table, row) ==
    IF \E r \in table : PrimaryKey(name, r) = PrimaryKey(name, row)
    THEN table
    ELSE table \cup {row}

\* INSERT OR REPLACE INTO name.
InsertOrReplace(name, table, row) ==
    {r \in table : PrimaryKey(name, r) # PrimaryKey(name, row)} \cup {row}

\* INSERT OR REPLACE of each row of rows, whose keys are pairwise distinct
\* (they come from the keys of the artist_stats dictionary).
InsertAllOrReplace(name, table, rows) ==
    {r \in table : \A x \in rows : PrimaryKey(name, x) # PrimaryKey(name, r)}
        \cup rows

\* ------------------------------------------------------------------ helpers
RECURSIVE SumSeq(_)
SumSeq(s) == IF s = <<>> THEN 0 ELSE s[1] + SumSeq(Tail(s))

RECURSIVE Gcd(_, _)
Gcd(a, b) == IF b = 0 THEN a ELSE Gcd(b, a % b)

\* sum(ranks) / len(ranks) as a fraction in lowest terms.
Mean(ranks) ==
    LET s == SumSeq(ranks)
        n == Len(ranks)
        g == Gcd(s, n)
    IN  [num |-> s \div g, den |-> n \div g]

\* ---------------------------------------------------------------- Collector
NoStats == [a \in {} |-> 0]

\* The loop over tracks['items']: one upsert per item and the running
\* artist_stats; stops at the first item that raises.
RECURSIVE LoopItems(_, _, _, _, _, _)
LoopItems(items, rank, time_range, collected_date, table, artist_stats) ==
    IF rank > Len(items)
    THEN [tracks |-> table, artist_stats |-> artist_stats, raised |-> FALSE]
    ELSE
      LET track == items[rank] IN
      IF track.artists = <<>>
      THEN [tracks |-> table, artist_stats |-> artist_stats, raised |-> TRUE]
      ELSE
        LET artist == track.artists[1]
            row == [track_id |-> track.id,
                    track_name |-> track.name,
                    artist_name |-> artist,
                    popularity |-> track.popularity,
                    time_range |-> time_range,
                    rank_position |-> rank,
                    collected_date |-> collected_date]
            old == IF artist \in DOMAIN artist_stats
                   THEN artist_stats[artist]
                   ELSE [count |-> 0, total_pop |-> 0, ranks |-> <<>>]
            new == [count |-> old.count + 1,
                    total_pop |-> old.total_pop + track.popularity,
                    ranks |-> Append(old.ranks, rank)]
        IN  LoopItems(items, rank + 1, time_range, collected_date,
                      InsertOrReplace("tracks", table, row),
                      [a \in DOMAIN artist_stats \cup {artist} |->
                          IF a = artist THEN new ELSE artist_stats[a]])

\* The artist summary rows of one window.
ArtistRows(artist_stats, time_range, collected_date) ==
    {[artist_name |-> a,
      time_range |-> time_range,
      track_count |-> artist_stats[a].count,
      total_popularity |-> artist_stats[a].total_pop,
      avg_rank |-> Mean(artist_stats[a].ranks),
      collected_date |-> collected_date] : a \in DOMAIN artist_stats}

\* The body of the try block for one window, and its except clause.
FetchWindow(db, time_range, response, collected_date) ==
    IF response.raised
    THEN db
    ELSE
      LET loop == LoopItems(response.items, 1, time_range, collected_date,
                            db.tracks, NoStats)
      IN  IF loop.raised
          THEN [db EXCEPT !.tracks = loop.tracks]
          ELSE [tracks |-> loop.tracks,
                artists |-> InsertAllOrReplace(
                               "artists", db.artists,
                               ArtistRows(loop.artist_stats, time_range,
                                          collected_date))]

\* A loop that stops after the first window.
FetchFirstWindow(db, i, charts, collected_date) ==
    FetchWindow(db, time_periods[1], charts[time_periods[1]], collected_date)

\* The for loop over time_periods.
RECURSIVE FetchAll(_, _, _, _)
FetchAll(db, i, charts, collected_date) ==
    IF i > Len(time_periods) THEN db
    ELSE FetchAll(FetchWindow(db, time_periods[i], charts[time_periods[i]],
                              collected_date),
                  i + 1, charts, collected_date)

\* The number of items of a response that the loop handles before the
\* window ends: none when the fetch raised, else those before the first
\* malformed item.
Handled(response) ==
    IF response.raised THEN 0
    ELSE CHOOSE k \in 0..Len(response.items) :
           /\ \A i \in 1..k : response.items[i].artists # <<>>
           /\ k < Len(response.items) => response.items[k + 1].artists = <<>>

\* The window was handled without an exception.
Succeeded(response) ==
    ~response.raised /\ Handled(response) = Len(response.items)

\* The track rows a run writes, as the history records them: item k of the
\* response of window w, for each k the loop reaches.
Writes(charts, collected_date) ==
    {[track_id |-> charts[w].items[k].id,
      track_name |-> charts[w].items[k].name,
      artist_name |-> charts[w].items[k].artists[1],
      popularity |-> charts[w].items[k].popularity,
      time_range |-> w,
      rank_position |-> k,
      collected_date |-> collected_date]
       : <<w, k>> \in {x \in TimeRanges \X (1..MaxItems) :
                          x[2] <= Handled(charts[x[1]])}}

\* The three historical tables as one value.
Store ==
    [historical_tracks |-> historical_tracks,
     historical_artists |-> historical_artists,
     collection_log |-> collection_log]

\* fetch_listening_data: one timestamp, the three windows, one commit.
fetch_listening_data(charts) ==
    /\ clock < MaxRuns
    /\ LET collected_date == clock + 1
           db == FetchAll([tracks |-> tracks, artists |-> artists], 1, charts,
                          collected_date)
       IN  /\ tracks' = db.tracks
           /\ artists' = db.artists
           /\ clock' = collected_date
           /\ last' = [op |-> "collect", charts |-> charts,
                       collected_date |-> collected_date, before |-> Store]
           /\ written' =
                 LET new == Writes(charts, collected_date)
                 IN  {r \in written :
                         \A x \in new : TrackKey(x) # TrackKey(r)} \cup new
    /\ UNCHANGED <<historical, today, archives, session, server>>

\* Menu choice 1 of spotify_data_analysis.main, for any upstream charts.
CollectorRun ==
    /\ \E charts \in Charts(clock + 1) : fetch_listening_data(charts)
    /\ UNCHANGED menu

\* The same with the same response in every window.
CollectorRunUniform ==
    /\ \E charts \in UniformCharts(clock + 1) : fetch_listening_data(charts)
    /\ UNCHANGED menu

\* ----------------------------------------------------------------- Archiver
\* The calendar: collection_date is the day number (the '%Y-%m-%d' string),
\* collection_month the month that holds it, collection_year the year.
MonthOf(date) == (date - 1) \div DaysPerMonth
YearOf(date) == MonthOf(date) \div MonthsPerYear

\* A copy that also drops the rank column.
HistoricalTrackNoRank(r, date) ==
    [collection_date |-> date,
     collection_month |-> MonthOf(date),
     collection_year |-> YearOf(date),
     track_id |-> r.track_id,
     track_name |-> r.track_name,
     artist_name |-> r.artist_name,
     popularity |-> r.popularity,
     time_range |-> r.time_range]

\* tracks_clean: the live row without collected_date, with the date columns.
HistoricalTrack(r, date) ==
    [collection_date |-> date,
     collection_month |-> MonthOf(date),
     collection_year |-> YearOf(date),
     track_id |-> r.track_id,
     track_name |-> r.track_name,
     artist_name |-> r.artist_name,
     popularity |-> r.popularity,
     time_range |-> r.time_range,
     rank_position |-> r.rank_position]

\* artists_clean.
HistoricalArtist(r, date) ==
    [collection_date |-> date,
     collection_month |-> MonthOf(date),
     collection_year |-> YearOf(date),
     artist_name |-> r.artist_name,
     time_range |-> r.time_range,
     track_count |-> r.track_count,
     total_popularity |-> r.total_popularity,
     avg_rank |-> r.avg_rank]

\* log_data.
LogEntry(date, timestamp, tracks_clean, artists_clean) ==
    [collection_date |-> date,
     collection_timestamp |-> timestamp,
     tracks_collected |-> Cardinality(tracks_clean),
     artists_collected |-> Cardinality(artists_clean),
     notes |-> <<Cardinality(tracks_clean), Cardinality(artists_clean)>>]

\* A DELETE that removes nothing.
DeleteNothing(table, date) == table

\* A DELETE without its WHERE clause.
DeleteEveryDate(table, date) == {}

\* DELETE FROM table WHERE collection_date = date.
DeleteDate(table, date) == {r \in table : r.collection_date # date}

\* A prompt that takes any answer for a yes.
AnyAnswerConfirms(response) == "y"

\* An answer reduced to its first letter.
FirstLetter(response) ==
    IF response \in {"y", "Y", "yes", "YES", "y "} THEN "y" ELSE response
\* input().lower(): letters lowered, nothing stripped.
Lower(response) ==
    CASE response = "Y" -> "y"
      [] response = "YES" -> "yes"
      [] OTHER -> response

\* A to_sql on a table that declares no primary key.
RaisesOnFaultOnly(name, table, rows, fault) == fault

\* DataFrame.to_sql(name, conn, if_exists='append') on the stored table: the rows are inserted and the connection is committed, or, when a
\* row violates the key or an I/O fault strikes, the connection is rolled
\* back and the exception leaves store_historical_data.
ToSqlRaises(name, table, rows, fault) ==
    \/ fault
    \/ \E r \in rows : \E x \in table : PrimaryKey(name, x) = PrimaryKey(name, r)

\* What sqlite3.connect and the two SELECTs of collect_current_data meet:
\* the live database with its tables, no database file, or a file that
\* cannot be read.
LiveAccess == {"ok", "absent", "unreadable"}

\* A collect_current_data that hands over whatever it has read.
ReturnsFrames(access, live_tracks, live_artists) ==
    IF access # "ok"
    THEN [none |-> FALSE, tracks_df |-> {}, artists_df |-> {}]
    ELSE [none |-> FALSE, tracks_df |-> live_tracks, artists_df |-> live_artists]

\* collect_current_data: the live tables, or None when reading raised or
\* tracks is empty.
collect_current_data(access, live_tracks, live_artists) ==
    IF access # "ok" \/ live_tracks = {}
    THEN [none |-> TRUE, tracks_df |-> {}, artists_df |-> {}]
    ELSE [none |-> FALSE, tracks_df |-> live_tracks, artists_df |-> live_artists]

\* store_historical_data on the committed store db.  The result carries the
\* committed store afterwards, the return value ("True", "False", or
\* "raised" when an exception left the function), whether the prompt was
\* shown, and the step that raised.
store_historical_data(db, tracks_df, artists_df, collection_date, timestamp, response, fault) ==
    LET existing == Cardinality({e \in db.collection_log :
                                    e.collection_date = collection_date})
        prompted == existing > 0
    IN
    IF prompted /\ Lower(response) # "y"
    THEN [db |-> db, result |-> "False", prompted |-> TRUE,
          entered |-> FALSE, failed |-> "none"]
    ELSE
      LET \* the connection's view after the three DELETEs (not committed)
          deleted ==
              IF prompted
              THEN [historical_tracks |->
                        DeleteDate(db.historical_tracks, collection_date),
                    historical_artists |->
                        DeleteDate(db.historical_artists, collection_date),
                    collection_log |->
                        DeleteDate(db.collection_log, collection_date)]
              ELSE db
          tracks_clean == {HistoricalTrack(r, collection_date) : r \in tracks_df}
          artists_clean ==
              {HistoricalArtist(r, collection_date) : r \in artists_df}
          log_data == LogEntry(collection_date, timestamp, tracks_clean,
                               artists_clean)
          \* committed by the first to_sql
          with_tracks ==
              [deleted EXCEPT !.historical_tracks = @ \cup tracks_clean]
          \* committed by the second to_sql
          with_artists ==
              [with_tracks EXCEPT !.historical_artists = @ \cup artists_clean]
          \* committed by the third to_sql
          with_log ==
              [with_artists EXCEPT !.collection_log = @ \cup {log_data}]
      IN
      IF ToSqlRaises("historical_tracks", deleted.historical_tracks,
                     tracks_clean, fault = "tracks")
      THEN [db |-> db, result |-> "raised", prompted |-> prompted,
            entered |-> TRUE, failed |-> "tracks"]
      ELSE IF ToSqlRaises("historical_artists",
                          with_tracks.historical_artists, artists_clean,
                          fault = "artists")
      THEN [db |-> with_tracks, result |-> "raised", prompted |-> prompted,
            entered |-> TRUE, failed |-> "artists"]
      ELSE IF ToSqlRaises("collection_log", with_artists.collection_log,
                          {log_data}, fault = "log")
      THEN [db |-> with_artists, result |-> "raised", prompted |-> prompted,
            entered |-> TRUE, failed |-> "log"]
      ELSE [db |-> with_log, result |-> "True", prompted |-> prompted,
            entered |-> TRUE, failed |-> "none"]

\* The log has an entry for date d.
Logged(d) == \E e \in collection_log : e.collection_date = d

\* The historical rows and log entries of date d.
DayTracks(d) == {r \in historical_tracks : r.collection_date = d}
DayArtists(d) == {r \in historical_artists : r.collection_date = d}
DayLog(d) == {e \in collection_log : e.collection_date = d}
Day(d) == <<DayTracks(d), DayArtists(d), DayLog(d)>>

\* main of historical_data_collector.py.  last.before is the historical
\* store the run found.
ArchiverRun ==
    /\ archives < MaxArchives
    /\ \E response \in Answers : \E fault \in Faults : \E access \in LiveAccess :
        LET current == collect_current_data(access, tracks, artists)
            db == Store
            out == IF current.none
                   THEN [db |-> db, result |-> "no data", prompted |-> FALSE,
                         entered |-> FALSE, failed |-> "none"]
                   ELSE store_historical_data(db, current.tracks_df,
                                              current.artists_df, today,
                                              archives + 1, response, fault)
        IN  /\ historical_tracks' = out.db.historical_tracks
            /\ historical_artists' = out.db.historical_artists
            /\ collection_log' = out.db.collection_log
            /\ last' = [op |-> "archive",
                        date |-> today,
                        access |-> access,
                        prompted |-> out.prompted,
                        response |-> IF out.prompted THEN response ELSE "",
                        fault |-> IF out.entered THEN fault ELSE "none",
                        failed |-> out.failed,
                        result |-> out.result,
                        before |-> db]
    /\ archives' = archives + 1
    /\ UNCHANGED <<live, today, clock, written, session, server, menu>>

\* Midnight passes.
NextDay ==
    /\ today < MaxDate
    /\ today' = today + 1
    /\ UNCHANGED <<live, historical, clock, archives, last, written, session,
                   server, menu>>

\* ------------------------------------------------------------ specification
Init ==
    /\ tracks = {}
    /\ artists = {}
    /\ historical_tracks = {}
    /\ historical_artists = {}
    /\ collection_log = {}
    /\ today = 1
    /\ clock = 0
    /\ archives = 0
    /\ last = [op |-> "none"]
    /\ written = {}
    /\ session = [at |-> "off", columns |-> {}]
    /\ server = ServerOff
    /\ menu = MenuOff

\* Collector runs alone, over every chart of the bounds.
NextCollector == CollectorRun

SpecCollector == Init /\ [][NextCollector]_vars

\* Collector and Archiver runs in any order, over the days.
Next == CollectorRunUniform \/ ArchiverRun \/ NextDay

Spec == Init /\ [][Next]_vars


\* ------------------------------------------------------------------- claims
\* The step is an Archiver run / a Collector run.
IsArchiverRun == archives' = archives + 1
IsCollectorRun == clock' = clock + 1

\* The Archiver run calls store_historical_data: the live database was
\* read and its tracks table is not empty.
CallsStore == IsArchiverRun /\ last'.access = "ok" /\ tracks # {}

\* The rows and log entries of date d in a store db.
DayOf(db, d) ==
    <<{r \in db.historical_tracks : r.collection_date = d},
      {r \in db.historical_artists : r.collection_date = d},
      {e \in db.collection_log : e.collection_date = d}>>

\* The last step that ran a program was an Archiver run that called
\* store_historical_data, and it found a log entry for its date / none.
Stored == last.op = "archive" /\ last.result # "no data"
FoundLogged == Stored /\ DayOf(last.before, last.date)[3] # {}

\* C1: when a log entry for the current date exists and the user declines
\* the prompt, store_historical_data returns False and no historical track
\* row, historical artist row or log entry of any date is added, changed or
\* deleted, whatever the live tables hold.
C1_DeclineChangesNothing ==
    (FoundLogged /\ last.response \notin {"y", "Y"})
       => (last.result = "False" /\ Store = last.before)

\* C1 happens: the run was declined on a day whose archive differs from the
\* live tables.
C1_Witness ==
    /\ FoundLogged
    /\ last.prompted
    /\ last.response = "n"
    /\ last.result = "False"
    /\ DayTracks(last.date) # {}
    /\ DayTracks(last.date) # {HistoricalTrack(r, last.date) : r \in tracks}

\* What a single fresh archive of the live tables writes for the date of the
\* last Archiver run: that run on a store that holds nothing.
FreshArchive ==
    store_historical_data(
        [historical_tracks |-> {}, historical_artists |-> {},
         collection_log |-> {}],
        tracks, artists, last.date, archives, "", "none").db

\* C2: a confirmed re-run on an archived date, when no step of it is struck
\* by a fault, returns True and leaves for that date exactly the rows and
\* the log entry of a single fresh archive of the current live tables.
C2_ConfirmedRerunReplaces ==
    (FoundLogged /\ last.response \in {"y", "Y"} /\ last.fault = "none")
       => /\ last.result = "True"
          /\ DayTracks(last.date) = FreshArchive.historical_tracks
          /\ DayArtists(last.date) = FreshArchive.historical_artists
          /\ DayLog(last.date) = FreshArchive.collection_log

\* C2 happens: a confirmed re-run succeeded after the live tables had
\* changed since the earlier archive of the day, whose rows are gone.
C2_Witness ==
    /\ FoundLogged
    /\ last.prompted
    /\ last.response \in {"y", "Y"}
    /\ last.result = "True"
    /\ \E r \in DayOf(last.before, last.date)[1] : r \notin historical_tracks
    /\ DayTracks(last.date) = {HistoricalTrack(r, last.date) : r \in tracks}

\* C3: after an Archiver run (none of whose steps is struck by a fault) on
\* a date that has no log entry, with at least one live track row, the
\* historical track and artist rows of the date are as many as the live
\* track and artist rows, and the one log entry of the date records these
\* two counts.
C3_FreshArchiveCounts ==
    [][(CallsStore /\ ~Logged(today) /\ last'.fault = "none")
          => /\ Cardinality(DayTracks(today)') = Cardinality(tracks)
             /\ Cardinality(DayArtists(today)') = Cardinality(artists)
             /\ \E e \in collection_log' :
                   /\ DayLog(today)' = {e}
                   /\ e.tracks_collected = Cardinality(tracks)
                   /\ e.artists_collected = Cardinality(artists)]_vars

\* No date is held in part: a date that has rows has its log entry, and the
\* entry counts the rows of the date.
WholeDays ==
    \A d \in 1..MaxDate :
        /\ (DayTracks(d) # {} \/ DayArtists(d) # {}) => DayLog(d) # {}
        /\ \A e \in DayLog(d) :
              /\ e.tracks_collected = Cardinality(DayTracks(d))
              /\ e.artists_collected = Cardinality(DayArtists(d))

\* C4: an Archiver run is atomic: a run in which a step fails leaves the
\* historical store as it was, and the store never holds a date in part.
C4_ArchiveAtomic ==
    [][IsArchiverRun
          => /\ last'.result = "raised" => UNCHANGED historical
             /\ WholeDays']_vars

\* The live rows of a window.
WindowTracks(table, w) == {r \in table : r.time_range = w}
WindowArtists(table, w) == {r \in table : r.time_range = w}

\* C5: the live tracks table holds at most one row per (track id, window);
\* a run that writes the pair leaves that row with the values of its write
\* (popularity, rank, names, collection timestamp), and a run that does not
\* write the pair leaves its row as it was: the table is, key by key, the
\* latest write of the key.
C5_UpsertKeepsLastWrite ==
    /\ \A r, x \in tracks : TrackKey(r) = TrackKey(x) => r = x
    /\ \A t \in TrackIds, w \in TimeRanges :
          {r \in tracks : TrackKey(r) = <<t, w>>}
            = {r \in written : TrackKey(r) = <<t, w>>}

\* C5 happens: a pair written by the first run was written again by the
\* second with another popularity and another rank.  (In this state t2 keeps
\* rank 2 of the first run in window w, so the first run's response for w
\* was <<t1, t2>> and wrote t1 at rank 1 with popularity 45; the second run
\* wrote t1 again.)
C5_Witness ==
    \E w \in TimeRanges : \E old, new \in tracks :
        /\ old.time_range = w /\ old.track_id = "t2"
        /\ old.rank_position = 2 /\ old.collected_date = 1
        /\ new.time_range = w /\ new.track_id = "t1"
        /\ new.collected_date = 2 /\ new.popularity = 50
        /\ Cardinality(WindowTracks(tracks, w)) = 2

RECURSIVE SumPopularity(_)
SumPopularity(rows) ==
    IF rows = {} THEN 0
    ELSE LET r == CHOOSE x \in rows : TRUE
         IN  r.popularity + SumPopularity(rows \ {r})

RECURSIVE SumRank(_)
SumRank(rows) ==
    IF rows = {} THEN 0
    ELSE LET r == CHOOSE x \in rows : TRUE
         IN  r.rank_position + SumRank(rows \ {r})

ArtistNames == {TrackArtist[t] : t \in TrackIds}

\* C6: for every window and artist, the live artists row is the grouping
\* of the live tracks rows of the window by artist: there is a row iff the
\* artist has a track row in the window, and its track count, summed
\* popularity and mean rank are those of these track rows.
C6_ArtistsDerivable ==
    \A w \in TimeRanges, a \in ArtistNames :
        LET group == {r \in tracks : r.time_range = w /\ r.artist_name = a}
            rows == {r \in artists : ArtistKey(r) = <<a, w>>}
        IN  IF group = {} THEN rows = {}
            ELSE \E r \in rows :
                   /\ rows = {r}
                   /\ r.track_count = Cardinality(group)
                   /\ r.total_popularity = SumPopularity(group)
                   /\ r.avg_rank.num * Cardinality(group)
                        = SumRank(group) * r.avg_rank.den

\* C7: after a run in which window w was handled without an exception, the
\* live track rows of w are those of the fetch (item k at rank k) and the
\* live artist rows of w are of the artists of the fetch, written by this
\* run; so w holds at most MaxItems track rows, of pairwise distinct ranks.
C7_WindowIsLastFetch ==
    last.op = "collect" =>
      \A w \in TimeRanges :
        Succeeded(last.charts[w]) =>
          LET items == last.charts[w].items
              rows == WindowTracks(tracks, w)
          IN  /\ {<<r.track_id, r.rank_position>> : r \in rows}
                   = {<<items[k].id, k>> : k \in 1..Len(items)}
              /\ {r.artist_name : r \in WindowArtists(artists, w)}
                   = {items[k].artists[1] : k \in 1..Len(items)}
              /\ \A r \in WindowArtists(artists, w) :
                     r.collected_date = last.collected_date
              /\ Cardinality(rows) <= MaxItems
              /\ \A r, x \in rows :
                     r.rank_position = x.rank_position => r = x

\* C8: in a run, a window whose handling raised is skipped (none of its
\* track and artist rows is written or changed), every other window is
\* stored (each of its items has its track row of this run), and the run
\* completes.
C8_FailureSkipsWindow ==
    [][IsCollectorRun =>
        \A w \in TimeRanges :
          LET response == last'.charts[w] IN
          IF Succeeded(response)
          THEN \A k \in 1..Len(response.items) :
                 \E r \in WindowTracks(tracks', w) :
                    /\ r.track_id = response.items[k].id
                    /\ r.rank_position = k
                    /\ r.collected_date = last'.collected_date
          ELSE /\ WindowTracks(tracks', w) = WindowTracks(tracks, w)
               /\ WindowArtists(artists', w) = WindowArtists(artists, w)]_vars

\* C9: in the historical store no two track rows share (collection date,
\* track id, window), no two artist rows share (collection date, artist
\* name, window), and no two log entries share a collection date.
C9_HistoricalKeysUnique ==
    /\ \A r, x \in historical_tracks :
          HistoricalTrackKey(r) = HistoricalTrackKey(x) => r = x
    /\ \A r, x \in historical_artists :
          HistoricalArtistKey(r) = HistoricalArtistKey(x) => r = x
    /\ \A r, x \in collection_log : LogKey(r) = LogKey(x) => r = x

\* C9 happens: an Archiver run that no fault struck was refused by the key
\* of historical_tracks, on a date that held rows of an earlier collection.
C9_Witness ==
    /\ last.op = "archive"
    /\ last.result = "raised"
    /\ last.fault = "none"
    /\ last.failed = "tracks"
    /\ \E r \in tracks :
          HistoricalTrack(r, last.date) \notin historical_tracks

\* C10: an Archiver run on date D deletes or changes no historical row or
\* log entry of another date and adds none to another date; rows of D go
\* only on the confirmed replace path; no other step changes the
\* historical store.
C10_OtherDatesUntouched ==
    /\ last.op = "none" =>
          Store = [historical_tracks |-> {}, historical_artists |-> {},
                   collection_log |-> {}]
    /\ last.op = "collect" => Store = last.before
    /\ last.op = "archive" =>
          /\ \A d \in 1..MaxDate :
                d # last.date => Day(d) = DayOf(last.before, d)
          /\ (\E i \in 1..3 : \E r \in DayOf(last.before, last.date)[i] :
                  r \notin Day(last.date)[i])
               => /\ FoundLogged
                  /\ last.response \in {"y", "Y"}

\* C10 happens: the day's archive was replaced on confirmation while the
\* store held the archive of another day.
C10_Witness ==
    /\ FoundLogged
    /\ last.response = "y"
    /\ last.result = "True"
    /\ \E r \in DayOf(last.before, last.date)[1] : r \notin historical_tracks
    /\ \E r \in historical_tracks : r.collection_date # last.date
    /\ \E e \in collection_log : e.collection_date # last.date

\* The track rows that the run of the step writes for artist a in window w.
Encounters(a, w) ==
    {r \in Writes(last'.charts, last'.collected_date) :
        r.time_range = w /\ r.artist_name = a}

\* C11: the live artists table holds at most one row per (artist name,
\* window); a run that encounters the artist in the window leaves that row
\* with the track count, summed popularity, mean rank and timestamp of its
\* own items of that window, and a run that does not encounter the artist
\* in the window leaves the row as it was.
C11_ArtistRowIsLastEncounter ==
    [][IsCollectorRun =>
        \A a \in ArtistNames, w \in TimeRanges :
          LET hits == Encounters(a, w)
              before == {r \in artists : ArtistKey(r) = <<a, w>>}
              after == {r \in artists' : ArtistKey(r) = <<a, w>>}
          IN  /\ Cardinality(after) <= 1
              /\ IF hits = {} THEN after = before
                 ELSE \A r \in after :
                        /\ r.track_count = Cardinality(hits)
                        /\ r.total_popularity = SumPopularity(hits)
                        /\ r.avg_rank.num * Cardinality(hits)
                             = SumRank(hits) * r.avg_rank.den
                        /\ r.collected_date = last'.collected_date]_vars

\* C12: every track row written by a run has the rank of its item's 1-based
\* position in the response of its window, so with responses of at most
\* MaxItems items (50 in the code) every live rank is in 1..MaxItems; and
\* each run handles exactly the windows short_term, medium_term, long_term.
C12_RankIsPosition ==
    LET windows == {"short_term", "medium_term", "long_term"} IN
    /\ \A r \in tracks :
          r.time_range \in windows /\ r.rank_position \in 1..MaxItems
    /\ last.op = "collect" =>
          /\ \A w \in windows : \A k \in 1..Handled(last.charts[w]) :
                \E r \in tracks :
                   /\ r.track_id = last.charts[w].items[k].id
                   /\ r.time_range = w
                   /\ r.rank_position = k
                   /\ r.collected_date = last.collected_date
          /\ \A r \in tracks :
                r.collected_date = last.collected_date =>
                   LET items == last.charts[r.time_range].items
                   IN  /\ r.rank_position \in 1..Len(items)
                       /\ items[r.rank_position].id = r.track_id

\* C12 happens: the second run wrote a row at rank 2 in each of the three
\* windows.
C12_Witness ==
    /\ last.op = "collect"
    /\ \A w \in TimeRanges : \E r \in tracks :
          /\ r.time_range = w
          /\ r.rank_position = 2
          /\ r.collected_date = 2

\* The historical rows that the last Archiver run wrote: when its insert
\* into the table went through, the rows of its date that a DELETE had
\* cleared the way for or that the date did not hold before.
WrittenTracks ==
    IF ~Stored \/ last.result = "False" \/ last.failed = "tracks" THEN {}
    ELSE IF last.prompted THEN DayTracks(last.date)
    ELSE DayTracks(last.date) \ last.before.historical_tracks
WrittenArtists ==
    IF ~Stored \/ last.result = "False" \/ last.failed \in {"tracks", "artists"}
    THEN {}
    ELSE IF last.prompted THEN DayArtists(last.date)
    ELSE DayArtists(last.date) \ last.before.historical_artists

\* Row h carries the date of the last Archiver run, and the month and year
\* that hold this date.
Stamped(h) ==
    /\ h.collection_date = last.date
    /\ h.collection_month * DaysPerMonth < h.collection_date
    /\ h.collection_date <= (h.collection_month + 1) * DaysPerMonth
    /\ h.collection_year * MonthsPerYear <= h.collection_month
    /\ h.collection_month < (h.collection_year + 1) * MonthsPerYear

\* Row h has the value of live row r in each of the given fields.
Copies(h, r, fields) == \A f \in fields : f \in DOMAIN h /\ h[f] = r[f]

\* C13 as stated: every historical row written by the Archiver carries, for
\* every field of the live row it was copied from, the live row's collection
\* timestamp included, the value of that live row, plus the date, month and
\* year of the run.
C13_HistoricalRowCopiesAll ==
    /\ \A h \in WrittenTracks :
          Stamped(h) /\ \E r \in tracks : Copies(h, r, DOMAIN r)
    /\ \A h \in WrittenArtists :
          Stamped(h) /\ \E r \in artists : Copies(h, r, DOMAIN r)

\* C13 amended: every historical row written by the Archiver carries, for
\* every field of the live row it was copied from other than the live row's
\* collection timestamp, the value of that live row, plus the date, month
\* and year of the run; it has no collection timestamp.
C13_HistoricalRowCopiesPayload ==
    /\ \A h \in WrittenTracks :
          /\ Stamped(h)
          /\ "collected_date" \notin DOMAIN h
          /\ \E r \in tracks : Copies(h, r, DOMAIN r \ {"collected_date"})
    /\ \A h \in WrittenArtists :
          /\ Stamped(h)
          /\ "collected_date" \notin DOMAIN h
          /\ \E r \in artists : Copies(h, r, DOMAIN r \ {"collected_date"})

\* C13 happens: an Archiver run on the second day wrote track rows and
\* artist rows.
C13_Witness ==
    /\ Stored
    /\ last.result = "True"
    /\ last.date = 2
    /\ WrittenTracks # {}
    /\ WrittenArtists # {}


\* ------------------------------------------------------------------ metrics
\* The metric routines read the live tables and print; their inputs here
\* are live track tables of at most MaxRows rows over a catalogue in which
\* two track ids are releases of the same song, two songs of different
\* artists share a name, and one popularity is exactly the niche threshold.
MaxRows == 6

MetricIds == {"m1", "m2", "m3", "m4", "m5"}
Song ==
    [m \in MetricIds |->
       CASE m = "m1" -> [name |-> "song1", artist |-> "A", popularity |-> 10]
         [] m = "m2" -> [name |-> "song1", artist |-> "A", popularity |-> 40]
         [] m = "m3" -> [name |-> "song2", artist |-> "A", popularity |-> 50]
         [] m = "m4" -> [name |-> "song3", artist |-> "B", popularity |-> 60]
         [] m = "m5" -> [name |-> "song3", artist |-> "C", popularity |-> 90]]

\* The rank a track holds in a window: m1 climbs from 40 to 10 over the
\* windows, m4 falls from 10 to 40, the others keep their rank.
RankOf(m, w) ==
    CASE m = "m1" -> (CASE w = "long_term" -> 40 [] w = "medium_term" -> 25
                        [] w = "short_term" -> 10)
      [] m = "m2" -> 20
      [] m = "m3" -> 30
      [] m = "m4" -> (CASE w = "long_term" -> 10 [] w = "medium_term" -> 25
                        [] w = "short_term" -> 40)
      [] m = "m5" -> 7

MetricRow(m, w) ==
    [track_id |-> m,
     track_name |-> Song[m].name,
     artist_name |-> Song[m].artist,
     popularity |-> Song[m].popularity,
     time_range |-> w,
     rank_position |-> RankOf(m, w),
     collected_date |-> 1]

MetricTables ==
    {{MetricRow(k[1], k[2]) : k \in keys} :
        keys \in {K \in SUBSET (MetricIds \X TimeRanges) :
                     Cardinality(K) <= MaxRows}}

\* n / d as a fraction in lowest terms (d > 0).
Ratio(n, d) == [num |-> n \div Gcd(n, d), den |-> d \div Gcd(n, d)]
\* A score that is left as a fraction of one.
Unscaled(n, d) == Ratio(n, d)
\* n / d * 100.
Percent(n, d) == Ratio(100 * n, d)

\* The artists table that goes with a tracks table: per window and artist,
\* the count, summed popularity and mean rank of the artist's rows.
Summaries(table) ==
    {[artist_name |-> k[1],
      time_range |-> k[2],
      track_count |-> Cardinality({r \in table : ArtistKey(r) = k}),
      total_popularity |-> SumPopularity({r \in table : ArtistKey(r) = k}),
      avg_rank |-> Ratio(SumRank({r \in table : ArtistKey(r) = k}),
                         Cardinality({r \in table : ArtistKey(r) = k})),
      collected_date |-> 1] : k \in {ArtistKey(r) : r \in table}}

\* groupby(['track_name', 'artist_name']): the keys, and the rows of a key.
SongKey(r) == <<r.track_name, r.artist_name>>
Songs(table) == {SongKey(r) : r \in table}
SongRows(table, k) == {r \in table : SongKey(r) = k}

\* lambda x: len(x.unique()) on time_range: the distinct windows of the rows.
DistinctPeriods(rows) == Cardinality({r.time_range : r \in rows})
\* agg({'time_range': 'count'}): the number of rows of the group.
PeriodCount(rows) == Cardinality(rows)

\* A niche filter that takes the threshold itself for niche.
NicheOrEqual(popularity) == popularity <= 50
\* popularity < niche_threshold.
IsNiche(popularity) == popularity < 50

\* The largest value_counts() entry.
TopArtistCount(table) ==
    LET counts == {Cardinality({r \in table : r.artist_name = a}) :
                      a \in {r.artist_name : r \in table}}
    IN  CHOOSE c \in counts : \A x \in counts : x <= c

\* IdentityMoodAnalyzer.calculate_identity_signals on the loaded tracks: the
\* returned dictionary, or the ZeroDivisionError of an empty table.
IdentitySignals(table) ==
    IF table = {} THEN [raised |-> TRUE]
    ELSE
      LET song_persistence == Songs(table)
          persistent_songs == {k \in song_persistence :
                                  PeriodCount(SongRows(table, k)) >= 2}
          niche_tracks == {r \in table : IsNiche(r.popularity)}
          artist_counts == {r.artist_name : r \in table}
      IN  [raised |-> FALSE,
           persistence_score |-> Percent(Cardinality(persistent_songs),
                                         Cardinality(song_persistence)),
           niche_percentage |-> Percent(Cardinality(niche_tracks),
                                        Cardinality(table)),
           artist_dominance |-> Percent(TopArtistCount(table),
                                        Cardinality(table)),
           artist_diversity |-> Ratio(Cardinality(artist_counts),
                                      Cardinality(table))]

calculate_identity_signals ==
    /\ last' = [op |-> "identity", signals |-> IdentitySignals(tracks)]
    /\ UNCHANGED <<live, historical, today, clock, archives, written, session,
                   server, menu>>

\* A window order that counts from the most recent window.
recent_first(w) ==
    CASE w = "long_term" -> 3 [] w = "medium_term" -> 2 [] w = "short_term" -> 1
\* period_order.
period_order(w) ==
    CASE w = "long_term" -> 1 [] w = "medium_term" -> 2 [] w = "short_term" -> 3

\* The (period_num, rank_position) points of the rows, in some order.
RECURSIVE Points(_)
Points(rows) ==
    IF rows = {} THEN <<>>
    ELSE LET r == CHOOSE x \in rows : TRUE
         IN  <<<<period_order(r.time_range), r.rank_position>>>>
               \o Points(rows \ {r})

\* LinearRegression().fit(X, y).coef_[0] for one feature: the least-squares
\* slope, and 0 when the feature is constant.
Slope(rows) ==
    LET p == Points(rows)
        n == Len(p)
        sx == SumSeq([i \in 1..n |-> p[i][1]])
        sy == SumSeq([i \in 1..n |-> p[i][2]])
        sxy == SumSeq([i \in 1..n |-> p[i][1] * p[i][2]])
        sxx == SumSeq([i \in 1..n |-> p[i][1] * p[i][1]])
        d == n * sxx - sx * sx
    IN  IF d = 0 THEN [num |-> 0, den |-> 1]
        ELSE Ratio(n * sxy - sx * sy, d)

\* A guard that asks for several rows only.
SeveralRows(artist_data) == Cardinality(artist_data) > 1
\* The two guards about artist_data ahead of the regression.
SeveralPeriods(artist_data) ==
    DistinctPeriods(artist_data) > 1 /\ Cardinality(artist_data) > 1

\* print_advanced_analysis on the live tracks: the artist trends with the
\* two classifications and the persistence rate it prints, or the early
\* return on an empty table.
AdvancedAnalysis(table) ==
    IF table = {} THEN [empty |-> TRUE]
    ELSE
      LET data(a) == {r \in table : r.artist_name = a}
          trending == {a \in {r.artist_name : r \in table} :
                          SeveralPeriods(data(a))}
          artist_trends ==
              [a \in trending |->
                 [slope |-> Slope(data(a)),
                  periods |-> DistinctPeriods(data(a)),
                  track_count |-> Cardinality(data(a))]]
          persistent_songs == {k \in Songs(table) :
                                  DistinctPeriods(SongRows(table, k)) > 1}
      IN  [empty |-> FALSE,
           artist_trends |-> artist_trends,
           improving_artists |->
               {a \in trending :
                   artist_trends[a].slope.num < -artist_trends[a].slope.den},
           declining_artists |->
               {a \in trending :
                   artist_trends[a].slope.num > artist_trends[a].slope.den},
           persistence_rate |-> Percent(Cardinality(persistent_songs),
                                        Cardinality(Songs(table)))]

print_advanced_analysis ==
    /\ last' = [op |-> "advanced", report |-> AdvancedAnalysis(tracks)]
    /\ UNCHANGED <<live, historical, today, clock, archives, written, session,
                   server, menu>>

\* create_advanced_visualizations of spotify_visualizations.py on the loaded
\* tracks: the artists it selects for the two trend bar charts, ahead of the
\* [:8] truncation (slope < -0.5 and slope > 0.5).
DashboardTrends(table) ==
    LET data(a) == {r \in table : r.artist_name = a}
        trending == {a \in {r.artist_name : r \in table} :
                        SeveralPeriods(data(a))}
    IN  [improving |-> {a \in trending :
                          2 * Slope(data(a)).num < -Slope(data(a)).den},
         declining |-> {a \in trending :
                          2 * Slope(data(a)).num > Slope(data(a)).den}]

create_advanced_visualizations ==
    /\ last' = [op |-> "dashboard", trends |-> DashboardTrends(tracks)]
    /\ UNCHANGED <<live, historical, today, clock, archives, written, session,
                   server, menu>>

\* main of identity_vs_mood_analysis.py: the routines it reaches, in order,
\* and the exception that ended it, if any.  The only handlers are the two
\* except clauses of main, around the whole run.
IdentityMoodRun(table) ==
    IF IdentitySignals(table).raised
    THEN [stages |-> <<"load_data", "identity_vs_mood_classification",
                       "calculate_identity_signals">>,
          error |-> "ZeroDivisionError"]
    ELSE [stages |-> <<"load_data", "identity_vs_mood_classification",
                       "calculate_identity_signals", "calculate_mood_signals",
                       "deep_identity_analysis",
                       "visualize_identity_mood_patterns">>,
          error |-> "none"]

identity_vs_mood_main ==
    /\ last' = [op |-> "identity_main", run |-> IdentityMoodRun(tracks)]
    /\ UNCHANGED <<live, historical, today, clock, archives, written, session,
                   server, menu>>

\* ------------------------------------------------ identity and mood scores
\* The release year of each catalogue track (the year of release_date).
ReleaseYear ==
    [m \in MetricIds |->
       CASE m = "m1" -> 2019
         [] m = "m2" -> 2019
         [] m = "m3" -> 2020
         [] m = "m4" -> 1975
         [] m = "m5" -> 1975]

\* A float: not-a-number, or the fraction num / den in lowest terms.
NaN == [nan |-> TRUE, num |-> 0, den |-> 1]
Number(n, d) == [nan |-> FALSE, num |-> Ratio(n, d).num, den |-> Ratio(n, d).den]

\* The sum of a column, or of its squares, over rows.
RECURSIVE SumColumn(_, _, _)
SumColumn(rows, column, squared) ==
    IF rows = {} THEN 0
    ELSE LET r == CHOOSE x \in rows : TRUE
             v == IF squared THEN r[column] * r[column] ELSE r[column]
         IN  v + SumColumn(rows \ {r}, column, squared)

\* The integer square root of n, searched between lo and hi.
RECURSIVE IsqrtIn(_, _, _)
IsqrtIn(n, lo, hi) ==
    IF lo >= hi THEN lo
    ELSE LET mid == (lo + hi + 1) \div 2
         IN  IF mid * mid <= n THEN IsqrtIn(n, mid, hi)
             ELSE IsqrtIn(n, lo, mid - 1)

\* Series.std() (sample standard deviation, ddof = 1) of a column, in
\* tenths rounded down; a series of fewer than two values has none.
StdTenths(rows, column) ==
    LET n == Cardinality(rows)
        sum == SumColumn(rows, column, FALSE)
        squares == SumColumn(rows, column, TRUE)
    IN  IsqrtIn(((n * squares - sum * sum) * 100) \div (n * (n - 1)), 0, 10000)

\* The sum of the groups' standard deviations of rank_position, in tenths.
RECURSIVE SumStd(_, _)
SumStd(table, keys) ==
    IF keys = {} THEN 0
    ELSE LET k == CHOOSE x \in keys : TRUE
         IN  StdTenths(SongRows(table, k), "rank_position")
                + SumStd(table, keys \ {k})

\* IdentityMoodAnalyzer.calculate_mood_signals on the loaded tracks.
MoodSignals(table) ==
    LET song_rankings == {k \in Songs(table) :
                             Cardinality(SongRows(table, k)) > 1}
        release_years == {ReleaseYear[r.track_id] : r \in table}
    IN  [ranking_volatility |->
             IF song_rankings = {} THEN NaN
             ELSE Number(SumStd(table, song_rankings),
                         10 * Cardinality(song_rankings)),
         era_diversity |-> Number(Cardinality(release_years), 1),
         popularity_variance |->
             IF Cardinality(table) < 2 THEN NaN
             ELSE Number(StdTenths(table, "popularity"), 10)]

\* Python's min(x * k, 100): the first argument unless the second is
\* smaller, so a not-a-number first argument is returned as it is.
MinTimes(x, k) ==
    IF x.nan THEN NaN
    ELSE IF 100 * x.den < x.num * k THEN Number(100, 1)
    ELSE Number(x.num * k, x.den)

\* 0.4 * a + 0.3 * b + 0.3 * c
MoodScore(a, b, c) ==
    IF a.nan \/ b.nan \/ c.nan THEN NaN
    ELSE Number(4 * a.num * b.den * c.den + 3 * b.num * a.den * c.den
                   + 3 * c.num * a.den * b.den,
                10 * a.den * b.den * c.den)

\* 0.3 * p + 0.3 * n + 0.2 * (100 - d) + 0.2 * (r * 100)
IdentityScore(p, n, d, r) ==
    LET all == p.den * n.den * d.den * r.den
    IN  Number(3 * p.num * (all \div p.den) + 3 * n.num * (all \div n.den)
                  + 2 * (100 * all - d.num * (all \div d.den))
                  + 200 * r.num * (all \div r.den),
               10 * all)

\* identity_vs_mood_classification: the two composite scores, or the
\* ZeroDivisionError of calculate_identity_signals.
Classification(table) ==
    LET identity_signals == IdentitySignals(table)
        mood_signals == MoodSignals(table)
    IN  IF identity_signals.raised
        THEN [raised |-> TRUE, identity_score |-> NaN, mood_score |-> NaN]
        ELSE [raised |-> FALSE,
              identity_score |->
                  IdentityScore(identity_signals.persistence_score,
                                identity_signals.niche_percentage,
                                identity_signals.artist_dominance,
                                identity_signals.artist_diversity),
              mood_score |->
                  MoodScore(MinTimes(mood_signals.ranking_volatility, 10),
                            MinTimes(mood_signals.popularity_variance, 2),
                            MinTimes(mood_signals.era_diversity, 3))]

identity_vs_mood_classification ==
    /\ last' = [op |-> "classification", scores |-> Classification(tracks)]
    /\ UNCHANGED <<live, historical, today, clock, archives, written, session,
                   server, menu>>

\* The metric routines over every table of the catalogue, the live tables
\* being as one Collector run left them.
InitMetrics ==
    /\ tracks \in MetricTables
    /\ artists = Summaries(tracks)
    /\ written = tracks
    /\ session = [at |-> "off", columns |-> {}]
    /\ server = ServerOff
    /\ menu = MenuOff
    /\ historical_tracks = {}
    /\ historical_artists = {}
    /\ collection_log = {}
    /\ today = 1
    /\ clock = 1
    /\ archives = 0
    /\ last = [op |-> "none"]

NextMetrics ==
    \/ calculate_identity_signals
    \/ print_advanced_analysis
    \/ create_advanced_visualizations
    \/ identity_vs_mood_main
    \/ identity_vs_mood_classification

SpecMetrics == InitMetrics /\ [][NextMetrics]_vars

\* The (track name, artist name) pairs of the live track table, the windows
\* a pair appears in, and the pairs that appear in at least 2 windows.
Pairs == {<<r.track_name, r.artist_name>> : r \in tracks}
WindowsOf(pair) ==
    {r.time_range : r \in {x \in tracks :
                              <<x.track_name, x.artist_name>> = pair}}
PersistentPairs == {pair \in Pairs : Cardinality(WindowsOf(pair)) >= 2}

\* The last step ran calculate_identity_signals / print_advanced_analysis
\* on a table that is not empty.
Scored == last.op = "identity" /\ tracks # {}
Reported == last.op = "advanced" /\ tracks # {}

\* C14: for every non-empty live track table the persistence score of
\* calculate_identity_signals is 100 times the number of pairs that appear
\* in at least 2 distinct windows, divided by the number of pairs.
C14_PersistenceScore ==
    Scored =>
      /\ ~last.signals.raised
      /\ last.signals.persistence_score.num * Cardinality(Pairs)
           = 100 * Cardinality(PersistentPairs)
               * last.signals.persistence_score.den

\* C15: when every pair of the live track table appears in exactly one
\* window, with however many rows, the persistence score is 0.
C15_OneWindowScoresZero ==
    (\A pair \in Pairs : Cardinality(WindowsOf(pair)) = 1) =>
      /\ Scored => /\ ~last.signals.raised
                   /\ last.signals.persistence_score.num = 0
      /\ Reported => last.report.persistence_rate.num = 0

\* C16: when the live track table is not empty and every pair appears in
\* all three windows, the persistence score is 100.
C16_AllWindowsScoresHundred ==
    (\A pair \in Pairs : WindowsOf(pair) = TimeRanges) =>
      /\ Scored => /\ ~last.signals.raised
                   /\ last.signals.persistence_score = [num |-> 100, den |-> 1]
      /\ Reported => /\ ~last.report.empty
                     /\ last.report.persistence_rate = [num |-> 100, den |-> 1]

\* C16 happens: a score was computed over two pairs that each appear in all
\* three windows.
C16_Witness ==
    /\ Scored
    /\ Cardinality(Pairs) = 2
    /\ \A pair \in Pairs : WindowsOf(pair) = TimeRanges
    /\ last.signals.persistence_score.num = 100

\* C17: for every non-empty track table the niche percentage is 100 times
\* the number of rows of popularity below 50 divided by the number of rows,
\* a row of popularity 50 not being niche; for the popularities 10, 40, 60,
\* 90 it is 50.
C17_NichePercentage ==
    Scored =>
      /\ ~last.signals.raised
      /\ last.signals.niche_percentage.num * Cardinality(tracks)
           = 100 * Cardinality({r \in tracks : r.popularity < 50})
               * last.signals.niche_percentage.den
      /\ (Cardinality(tracks) = 4
            /\ {r.popularity : r \in tracks} = {10, 40, 60, 90})
           => last.signals.niche_percentage = [num |-> 50, den |-> 1]

\* C17 happens: the niche percentage was computed over four rows of
\* popularities 10, 40, 60, 90.
C17_Witness ==
    /\ Scored
    /\ Cardinality(tracks) = 4
    /\ {r.popularity : r \in tracks} = {10, 40, 60, 90}
    /\ last.signals.niche_percentage.num = 50

\* The artists of the live track table and the rows of an artist.
ArtistsOf == {r.artist_name : r \in tracks}
RowsOf(a) == {r \in tracks : r.artist_name = a}

\* C18: a trend slope is computed for an artist iff the artist has track
\* rows in at least 2 distinct windows; only such an artist is classified.
C18_SlopeIffTwoWindows ==
    Reported =>
      /\ ~last.report.empty
      /\ DOMAIN last.report.artist_trends \subseteq ArtistsOf
      /\ \A a \in ArtistsOf :
            a \in DOMAIN last.report.artist_trends
              <=> Cardinality({r.time_range : r \in RowsOf(a)}) >= 2
      /\ (last.report.improving_artists \cup last.report.declining_artists)
            \subseteq DOMAIN last.report.artist_trends

\* C18 happens: the report was made of a table in which one artist has three
\* rows in a single window and no slope, and another has rows in two windows
\* and a slope.
C18_Witness ==
    /\ Reported
    /\ \E a \in ArtistsOf :
          /\ Cardinality(RowsOf(a)) = 3
          /\ Cardinality({r.time_range : r \in RowsOf(a)}) = 1
          /\ a \notin DOMAIN last.report.artist_trends
    /\ \E a \in ArtistsOf :
          /\ Cardinality({r.time_range : r \in RowsOf(a)}) = 2
          /\ a \in DOMAIN last.report.artist_trends

\* C19: for an artist with exactly one row in long_term, at rank a, one row
\* in short_term, at rank b, and no other row, the slope is (b - a) / 2; it
\* is negative when b < a, and for a = 40, b = 10 the artist is classified
\* as improving and not as declining.
C19_TwoPointSlope ==
    Reported =>
      \A x \in ArtistsOf : \A l, h \in RowsOf(x) :
        (RowsOf(x) = {l, h} /\ l.time_range = "long_term"
            /\ h.time_range = "short_term")
          => /\ x \in DOMAIN last.report.artist_trends
             /\ LET slope == last.report.artist_trends[x].slope
                     a == l.rank_position
                     b == h.rank_position
                 IN  /\ slope.den > 0
                     /\ 2 * slope.num = (b - a) * slope.den
                     /\ b < a => slope.num < 0
                     /\ (a = 40 /\ b = 10) =>
                           /\ x \in last.report.improving_artists
                           /\ x \notin last.report.declining_artists

\* C19 happens: the report classified as improving an artist whose two rows
\* are rank 40 in long_term and rank 10 in short_term.
C19_Witness ==
    /\ Reported
    /\ \E x \in last.report.improving_artists :
          {<<r.time_range, r.rank_position>> : r \in RowsOf(x)}
            = {<<"long_term", 40>>, <<"short_term", 10>>}


\* ------------------------------------------------------- psychology insights
\* main of spotify_psychology_insights.py loads tracks_df once and hands the
\* same DataFrame to every menu choice.  The routines assign derived columns
\* to it; session.columns is the set of derived columns it has.
DerivedColumns == {"duration_minutes", "release_year", "song_age"}
Choices == {"1", "2", "3", "4", "5", "6", "7", "x"}
Analyses == {"1", "2", "3", "4", "5", "6"}

\* The derived columns a routine reads before it has assigned them itself.
Reads(choice) ==
    IF choice = "4" THEN {"duration_minutes"} ELSE {}

\* The derived columns a routine assigns on tracks_df.
Adds(choice) ==
    CASE choice = "1" -> DerivedColumns
      [] choice = "2" -> {"release_year"}
      [] choice = "3" -> {}
      [] choice = "4" -> {"release_year", "song_age"}
      [] choice = "5" -> DerivedColumns
      [] choice = "6" -> DerivedColumns

\* The live tables the program is started on.
PsychologyTables == {t \in MetricTables : Cardinality(t) <= 2}

\* main up to the menu: load_data, and the return when it yields None.
psychology_load ==
    /\ session.at = "off"
    /\ session' = [at |-> IF tracks = {} THEN "returned" ELSE "menu",
                   columns |-> {}]
    /\ last' = [op |-> "load"]
    /\ UNCHANGED <<live, historical, today, clock, archives, written, server,
                   menu>>

\* One turn of the menu loop.  A routine that reads a column tracks_df does
\* not have raises KeyError, which nothing in main catches.
psychology_choice(choice) ==
    /\ session.at = "menu"
    /\ LET missing == choice \in Analyses
                         /\ ~(Reads(choice) \subseteq session.columns)
           outcome == IF choice \notin Analyses THEN "none"
                      ELSE IF missing THEN "KeyError" ELSE "completed"
       IN  /\ session' =
                 [at |-> IF choice = "7" THEN "exited"
                         ELSE IF missing THEN "crashed" ELSE "menu",
                  columns |-> IF choice \in Analyses /\ ~missing
                              THEN session.columns \cup Adds(choice)
                              ELSE session.columns]
           /\ last' = [op |-> "psychology", choice |-> choice,
                       outcome |-> outcome, columns |-> session.columns]
    /\ UNCHANGED <<live, historical, today, clock, archives, written, server,
                   menu>>

InitPsychology ==
    /\ tracks \in PsychologyTables
    /\ artists = Summaries(tracks)
    /\ written = tracks
    /\ historical_tracks = {}
    /\ historical_artists = {}
    /\ collection_log = {}
    /\ today = 1
    /\ clock = 1
    /\ archives = 0
    /\ last = [op |-> "none"]
    /\ session = [at |-> "off", columns |-> {}]
    /\ server = ServerOff
    /\ menu = MenuOff

NextPsychology ==
    psychology_load \/ \E choice \in Choices : psychology_choice(choice)

SpecPsychology == InitPsychology /\ [][NextPsychology]_vars

\* C20: in the psychology-insights menu every analysis choice (1 to 6)
\* leaves the shared loaded track table as it was loaded and completes,
\* whatever choices were made before it, also when it is the first choice.
C20_MenuOrderIndependent ==
    (last.op = "psychology" /\ last.choice \in Analyses) =>
       /\ last.outcome = "completed"
       /\ session.columns = {}

\* C21: for every non-empty live track table the persistence rate of
\* print_advanced_analysis equals the persistence score of
\* calculate_identity_signals.
C21_PersistenceAgrees ==
    /\ Scored =>
          /\ ~last.signals.raised
          /\ last.signals.persistence_score
               = AdvancedAnalysis(tracks).persistence_rate
    /\ Reported =>
          /\ ~last.report.empty
          /\ last.report.persistence_rate
               = IdentitySignals(tracks).persistence_score

\* C22: for every live track table the artists that print_advanced_analysis
\* classifies as improving and as declining are those that
\* create_advanced_visualizations selects, ahead of its display truncation.
C22_TrendClassesAgree ==
    /\ Reported =>
          /\ last.report.improving_artists = DashboardTrends(tracks).improving
          /\ last.report.declining_artists = DashboardTrends(tracks).declining
    /\ (last.op = "dashboard" /\ tracks # {}) =>
          /\ last.trends.improving = AdvancedAnalysis(tracks).improving_artists
          /\ last.trends.declining = AdvancedAnalysis(tracks).declining_artists

\* C23: when the track table loaded by IdentityMoodAnalyzer is empty, the
\* metric that divides by zero is left out and the rest of the run (mood
\* signals, deep identity analysis, visualization) is still executed.
C23_EmptyTableRunGoesOn ==
    (last.op = "identity_main" /\ tracks = {}) =>
       \A stage \in {"calculate_mood_signals", "deep_identity_analysis",
                      "visualize_identity_mood_patterns"} :
          \E i \in DOMAIN last.run.stages : last.run.stages[i] = stage

\* C24: when the live database is absent or cannot be read, or its tracks
\* table is empty, the Archiver ends without calling store_historical_data:
\* no prompt is shown and no historical row or log entry is created,
\* changed or deleted.
C24_NoLiveDataNoArchive ==
    (last.op = "archive" /\ (last.access # "ok" \/ tracks = {})) =>
       /\ last.result = "no data"
       /\ ~last.prompted
       /\ Store = last.before

\* C24 happens: the Archiver ran without a readable live database on a date
\* that is already archived, so a call of store_historical_data would have
\* prompted.
C24_Witness ==
    /\ last.op = "archive"
    /\ last.access \in {"absent", "unreadable"}
    /\ last.result = "no data"
    /\ DayLog(last.date) # {}
    /\ DayTracks(last.date) # {}


\* ------------------------------------------------------------- file server
\* serve_visualizations.py: the main thread lists the HTML files, binds the
\* port, starts Timer(1.0, open_browser) and serves until Ctrl+C; the timer
\* thread waits, runs open_browser (a sleep, then webbrowser.open) and ends.
\* The timer thread is not a daemon: it runs to its end whatever the main
\* thread does.  server.browser lists the calls of webbrowser.open, each
\* with what the main thread and the socket were at that moment.
MaxFiles == 2
MaxRequests == 6

\* A start-up that starts the timer ahead of binding the port.
AfterBindTimerFirst(s) ==
    IF s.port_free
    THEN [s EXCEPT !.bound = TRUE, !.main = "timer", !.timer = "waiting"]
    ELSE [s EXCEPT !.main = "returned", !.timer = "waiting"]
\* socketserver.TCPServer(("", PORT), Handler): bound, or the exception that
\* main reports before it returns.
AfterBind(s) ==
    IF s.port_free
    THEN [s EXCEPT !.bound = TRUE, !.main = "timer"]
    ELSE [s EXCEPT !.main = "returned"]

\* webbrowser.open at the end of open_browser.
OpenBrowser(s) ==
    [s EXCEPT !.timer = "done",
              !.browser = Append(@, [main |-> s.main, bound |-> s.bound])]

\* Lines 35-42: the listing, and the return when there is no HTML file.
server_list ==
    /\ server.main = "list"
    /\ server' = [server EXCEPT !.main = IF server.html_files = 0
                                         THEN "returned" ELSE "bind"]
    /\ UNCHANGED <<live, historical, today, clock, archives, last, written,
                   session, menu>>

\* Line 48.
server_bind ==
    /\ server.main = "bind"
    /\ server' = AfterBind(server)
    /\ UNCHANGED <<live, historical, today, clock, archives, last, written,
                   session, menu>>

\* Line 54: the timer thread is started.
server_start_timer ==
    /\ server.main = "timer"
    /\ server' = [server EXCEPT !.timer = "waiting", !.main = "serving"]
    /\ UNCHANGED <<live, historical, today, clock, archives, last, written,
                   session, menu>>

\* serve_forever handles one request.
server_request ==
    /\ server.main = "serving"
    /\ server.requests < MaxRequests
    /\ server' = [server EXCEPT !.requests = @ + 1]
    /\ UNCHANGED <<live, historical, today, clock, archives, last, written,
                   session, menu>>

\* Ctrl+C in the main thread: outside the try it ends the program with a
\* traceback, inside it closes the socket (the with block) and main prints
\* and returns.
server_interrupt ==
    /\ server.main \in {"list", "bind", "timer", "serving"}
    /\ server' = IF server.main = "list"
                 THEN [server EXCEPT !.main = "crashed"]
                 ELSE [server EXCEPT !.main = "stopped", !.bound = FALSE]
    /\ UNCHANGED <<live, historical, today, clock, archives, last, written,
                   session, menu>>

\* The timer's interval has passed: its thread calls open_browser, which
\* sleeps.
timer_run ==
    /\ server.timer = "waiting"
    /\ server' = [server EXCEPT !.timer = "sleeping"]
    /\ UNCHANGED <<live, historical, today, clock, archives, last, written,
                   session, menu>>

\* The sleep is over: webbrowser.open.
timer_open ==
    /\ server.timer = "sleeping"
    /\ server' = OpenBrowser(server)
    /\ UNCHANGED <<live, historical, today, clock, archives, last, written,
                   session, menu>>

InitServer ==
    /\ tracks = {}
    /\ artists = {}
    /\ historical_tracks = {}
    /\ historical_artists = {}
    /\ collection_log = {}
    /\ today = 1
    /\ clock = 0
    /\ archives = 0
    /\ last = [op |-> "none"]
    /\ written = {}
    /\ session = [at |-> "off", columns |-> {}]
    /\ menu = MenuOff
    /\ \E n \in 0..MaxFiles : \E free \in BOOLEAN :
          server = [ServerOff EXCEPT !.main = "list", !.html_files = n,
                                     !.port_free = free]

NextServer ==
    \/ server_list
    \/ server_bind
    \/ server_start_timer
    \/ server_request
    \/ server_interrupt
    \/ timer_run
    \/ timer_open

SpecServer == InitServer /\ [][NextServer]_vars

\* The timer thread is between its start and the end of open_browser.
TimerActive == server.timer \in {"waiting", "sleeping"}

\* C25 as stated: the browser-opening step and the request-serving loop are
\* never active at the same time.
C25_NeverConcurrent == ~(server.main = "serving" /\ TimerActive)

\* C25 amended: the file server runs one background thread, the browser
\* timer.  It exists only once the port was bound and the timer started, it
\* runs next to the serving loop, and it opens the browser at most once.
C25_OneTimerThreadAfterBind ==
    /\ server.timer # "none" => /\ server.main \in {"serving", "stopped"}
                                /\ server.port_free
                                /\ server.html_files > 0
    /\ Len(server.browser) <= 1
    /\ server.timer = "done" <=> Len(server.browser) = 1

\* C25: the serving loop has answered a request while open_browser sleeps.
C25_Witness ==
    /\ server.main = "serving"
    /\ server.timer = "sleeping"
    /\ server.requests > 0

\* C30: whenever the browser was opened, the server was bound and serving.
C30_BrowserOnlyWhileServing ==
    \A i \in DOMAIN server.browser :
        /\ server.browser[i].main = "serving"
        /\ server.browser[i].bound

\* The last Archiver run showed the prompt and the answer was not y or Y.
Declined == last.prompted /\ last.response \notin {"y", "Y"}

C28_RowsImplyLogWithCounts ==
    \A d \in 1..MaxDate :
        LET day == DayOf(Store, d) IN
        /\ (day[1] \cup day[2] # {}) => Logged(d)
        /\ \A e \in day[3] :
              /\ e.tracks_collected = Cardinality(day[1])
              /\ e.artists_collected = Cardinality(day[2])


\* ------------------------------------------------------ data-analysis menu
\* spotify_data_analysis.main after a successful setup: the loop prints the
\* menu, reads a line and dispatches on it.  menu.shown counts the times
\* the menu was printed, menu.choice is the last choice read, menu.found the
\* live tables as that choice found them, menu.closed the calls of
\* conn.close().
MaxInputs == 4

\* Lines typed at "Enter choice (1-5): ".
MenuInputs == {"1", "2", "3", "4", "5", " 5", "1 ", "0", "6", "", "five"}

\* input(...).strip()
Strip(line) ==
    CASE line = " 5" -> "5"
      [] line = "1 " -> "1"
      [] OTHER -> line

\* A dispatch whose last branch leaves the loop.
DispatchElseExit(choice) ==
    CASE choice = "1" -> "fetch"
      [] choice = "2" -> "summary"
      [] choice = "3" -> "advanced"
      [] choice = "4" -> "export"
      [] OTHER -> "exit"
\* The if/elif chain of lines 403-420.
Dispatch(choice) ==
    CASE choice = "1" -> "fetch"
      [] choice = "2" -> "summary"
      [] choice = "3" -> "advanced"
      [] choice = "4" -> "export"
      [] choice = "5" -> "exit"
      [] OTHER -> "invalid"

\* The overview that print_listening_summary prints.
ListeningSummary(table) ==
    [total_tracks |-> Cardinality(table),
     total_artists |-> Cardinality({r.artist_name : r \in table}),
     unique_songs |-> Cardinality({r.track_name : r \in table})]

\* The two CSV files that export_data writes.
ExportData(table, summary) ==
    [tracks_csv |-> table, artists_csv |-> summary]

\* The menu after the line was read; the loop goes round unless it broke.
MenuAfter(choice, ended) ==
    [at |-> IF ended THEN "ended" ELSE "menu",
     closed |-> IF ended THEN menu.closed + 1 ELSE menu.closed,
     choice |-> choice,
     shown |-> IF ended THEN menu.shown ELSE menu.shown + 1,
     found |-> <<tracks, artists>>]

\* One round of the loop that reads the line `line`.
MenuRound(line, branch) ==
    /\ menu.at = "menu"
    /\ menu.shown < MaxInputs
    /\ Dispatch(Strip(line)) = branch
    /\ menu' = MenuAfter(Strip(line), branch = "exit")

menu_fetch ==
    /\ \E line \in MenuInputs : MenuRound(line, "fetch")
    /\ \E charts \in UniformCharts(clock + 1) : fetch_listening_data(charts)

menu_summary ==
    /\ \E line \in MenuInputs : MenuRound(line, "summary")
    /\ last' = [op |-> "summary", report |-> ListeningSummary(tracks)]
    /\ UNCHANGED <<live, historical, today, clock, archives, written, session,
                   server>>

menu_advanced ==
    /\ \E line \in MenuInputs : MenuRound(line, "advanced")
    /\ last' = [op |-> "advanced", report |-> AdvancedAnalysis(tracks)]
    /\ UNCHANGED <<live, historical, today, clock, archives, written, session,
                   server>>

menu_export ==
    /\ \E line \in MenuInputs : MenuRound(line, "export")
    /\ last' = [op |-> "export", report |-> ExportData(tracks, artists)]
    /\ UNCHANGED <<live, historical, today, clock, archives, written, session,
                   server>>

menu_exit ==
    /\ \E line \in MenuInputs : MenuRound(line, "exit")
    /\ UNCHANGED <<live, historical, today, clock, archives, last, written,
                   session, server>>

menu_invalid ==
    /\ \E line \in MenuInputs : MenuRound(line, "invalid")
    /\ last' = [op |-> "invalid", report |-> "Invalid choice"]
    /\ UNCHANGED <<live, historical, today, clock, archives, written, session,
                   server>>

InitMenu ==
    /\ tracks = {}
    /\ artists = {}
    /\ historical_tracks = {}
    /\ historical_artists = {}
    /\ collection_log = {}
    /\ today = 1
    /\ clock = 0
    /\ archives = 0
    /\ last = [op |-> "none"]
    /\ written = {}
    /\ session = [at |-> "off", columns |-> {}]
    /\ server = ServerOff
    /\ menu = [MenuOff EXCEPT !.at = "menu", !.shown = 1]

NextMenu ==
    \/ menu_fetch
    \/ menu_summary
    \/ menu_advanced
    \/ menu_export
    \/ menu_exit
    \/ menu_invalid

SpecMenu == InitMenu /\ [][NextMenu]_vars

InRange(x) == ~x.nan /\ 0 <= x.num /\ x.num <= 100 * x.den

\* C26: for every non-empty track table, the identity score and the mood
\* score of identity_vs_mood_classification lie in 0..100, also when no
\* song appears in more than one row.
C26_ScoresInRange ==
    (last.op = "classification" /\ tracks # {}) =>
       /\ ~last.scores.raised
       /\ InRange(last.scores.identity_score)
       /\ InRange(last.scores.mood_score)

\* The identity half of C26 alone.
C26_IdentityInRange ==
    (last.op = "classification" /\ tracks # {}) =>
       /\ ~last.scores.raised
       /\ InRange(last.scores.identity_score)

\* The mood half of C26 on tables in which a song appears in several rows.
C26_MoodInRangeGivenSample ==
    (last.op = "classification"
        /\ \E k \in Songs(tracks) : Cardinality(SongRows(tracks, k)) > 1) =>
       InRange(last.scores.mood_score)

====
